---- MODULE Spec2Model ----
(***************************************************************************)
(* Model of the RouterOS client / connection manager of cms_eastvara       *)
(* (src/src/utils/mikrotik-api.ts): the WebSocket session RouterOSAPI,     *)
(* the stateless RouterOSHTTPAPI and the MikroTikAPIManager that tries     *)
(* the WebSocket method and then the HTTP method.                          *)
(*                                                                         *)
(* JavaScript runs every event handler, timer callback and API call to     *)
(* completion, together with the promise continuations (microtasks) it     *)
(* makes runnable.  One action of the model is one such task.  The         *)
(* handlers are operators from a state record to a state record, composed  *)
(* the way the code calls them.                                            *)
(***************************************************************************)
EXTENDS Integers, Sequences, FiniteSets, TLC

VARIABLES
    ws,          \* RouterOSAPI.ws: 0 (null) or the id of the current WebSocket
    connected,   \* RouterOSAPI.connected
    callbacks,   \* RouterOSAPI.callbacks: the set of <<tag, command index>> pairs
    tagCounter,  \* RouterOSAPI.tagCounter
    sock,        \* every WebSocket created so far, with its connect() promise
    cmds,        \* every sendCommand() promise created so far
    currentApi,  \* MikroTikAPIManager.currentApi: "null", "ws" or "http"
    config,      \* MikroTikAPIManager.config: <<>> (null) or <<c>>, c a configuration
    calls,       \* every MikroTikAPIManager.connect() call so far
    storage,     \* localStorage item 'mikrotik_config': <<>> (none) or a JSON text
    activeUser,  \* a row of /ip/hotspot/active the dashboard was given, <<>> before
    dataUsage,   \* the dataUsage the dashboard computed for it: <<>> or <<n>>
    connections, \* the server's registry: connection id -> request whose
                 \* connection is stored under it, 0 for no entry
    requests,    \* every POST /api/mikrotik/connect the server was sent
    proxy,       \* the backend-proxy MikroTikAPIManager: its connected flag,
                 \* its config (<<>> for null) and its connect() calls
    last         \* the task that ran last (history, read by the properties)

vars == <<ws, connected, callbacks, tagCounter, sock, cmds, currentApi, config,
          calls, storage, activeUser, dataUsage, connections, requests,
          proxy, last>>

\* Bounds of the model.
MaxSockets == 2     \* RouterOSAPI.connect calls (each creates one WebSocket)
MaxOps == 2         \* typed operations that pass the guard of sendCommand
MaxCalls == 1       \* MikroTikAPIManager.connect calls
MaxReconnects == 1  \* further MikroTikAPIManager.connect calls (SpecReconnect)
MaxTag == 2         \* inbound replies carry a tag in 0..MaxTag (0: no tag)
MaxLen == 2         \* characters of a byte counter the router returns
MaxRequests == 2    \* POST /api/mikrotik/connect requests the server is sent
MaxProxyCalls == 2  \* connect calls of the backend-proxy manager

\* The port MikroTikAPIManager.connect uses when it is given none.
DefaultPort == 8728

\* The port the server's endpoints use when the request body names none.
ServerPort == 8728

\* The port the backend-proxy manager uses when connect is given none.
ProxyPort == 8728

\* The arguments MikroTikAPIManager.connect is called with.  port 0 stands for
\* every falsy port (undefined, 0, NaN).
ConnectArgs ==
    {[host |-> "10.0.0.1", username |-> "admin", password |-> "pw",
      port |-> 0, useHttps |-> FALSE],
     [host |-> "10.0.0.2", username |-> "api", password |-> "",
      port |-> 8291, useHttps |-> TRUE]}

\* The configuration connect stores for its arguments, line 351.
makeConfig(a) ==
    [host |-> a.host, username |-> a.username, password |-> a.password,
     port |-> IF a.port = 0 THEN DefaultPort ELSE a.port, useHttps |-> a.useHttps]

Cfgs == {makeConfig(a) : a \in ConnectArgs}
ReplyTypes == {"data", "done", "trap", "fatal"}
Terminal == {"done", "trap", "fatal"}
QueryOps == {"getSystemResource", "getInterfaces", "getHotspotActive", "getHotspotUsers"}
BoolOps == {"addHotspotUser", "removeHotspotUser", "disconnectActiveUser"}
Ops == QueryOps \cup BoolOps

\* The state as one record, so that a handler is a function of the state.
\* ret is what the sendCommand call made last in the task returned: "none", or
\* the state of its promise when the executor returns.
\* The hosts and ports a request body of the server names; <<>> is a body
\* without a port.
Hosts == {"10.0.0.1", "10.0.0.2"}
PortInputs == {<<>>, <<ServerPort>>, <<ServerPort + 1>>}

\* `${host}:${port}` with the default of the destructuring: the text is
\* the same exactly when host and port are.
connectionId(host, port) == <<host, IF port = <<>> THEN ServerPort ELSE port[1]>>

Keys == {connectionId(h, p) : h \in Hosts, p \in PortInputs}

Cur ==
    [ws |-> ws, connected |-> connected, callbacks |-> callbacks,
     tagCounter |-> tagCounter, sock |-> sock, cmds |-> cmds,
     currentApi |-> currentApi, config |-> config, calls |-> calls,
     storage |-> storage, ret |-> "none"]

Commit(T, ev) ==
    /\ ws' = T.ws
    /\ connected' = T.connected
    /\ callbacks' = T.callbacks
    /\ tagCounter' = T.tagCounter
    /\ sock' = T.sock
    /\ cmds' = T.cmds
    /\ currentApi' = T.currentApi
    /\ config' = T.config
    /\ calls' = T.calls
    /\ storage' = T.storage
    /\ UNCHANGED <<activeUser, dataUsage, connections, requests, proxy>>
    /\ last' = ev

\* The task that ran: its kind, the socket, the command or manager call and the
\* tag it was about (0: none), and for a typed operation its name and what its
\* promise holds when the task ends.
Event(ev, s, i, tag) == [ev |-> ev, s |-> s, i |-> i, tag |-> tag, op |-> "", res |-> ""]
OpEvent(op, i, res) == [ev |-> "op", s |-> 0, i |-> i, tag |-> 0, op |-> op, res |-> res]

Init ==
    /\ ws = 0
    /\ connected = FALSE
    /\ callbacks = {}
    /\ tagCounter = 0
    /\ sock = <<>>
    /\ cmds = <<>>
    /\ currentApi = "null"
    /\ config = <<>>
    /\ calls = <<>>
    /\ storage = <<>>
    /\ activeUser = <<>>
    /\ dataUsage = <<>>
    /\ connections = [k \in Keys |-> 0]
    /\ requests = <<>>
    /\ proxy = [connected |-> FALSE, config |-> <<>>, calls |-> <<>>]
    /\ last = Event("init", 0, 0, 0)

(***************************************************************************)
(* Records.                                                                *)
(*   sock[s]:  st     "connecting" | "open" | "closing" | "abort" | "closed"*)
(*                    ("abort": close() was called before the socket opened)*)
(*             connP  the promise RouterOSAPI.connect returned for it:     *)
(*                    "pending" | "true" | "false" | "rej_failed" |        *)
(*                    "rej_timeout"                                        *)
(*             timer  the 10 s connect timer is still to fire              *)
(*             owner  the manager call awaiting connP, 0 for a direct call *)
(*             opened the onopen handler has run                           *)
(*             sent   the indices of the commands written to the socket    *)
(*   cmds[i]:  a command that passed the guard of sendCommand              *)
(*             kind   "login" | "probe" | "op"                             *)
(*             op     the typed operation ("login" for the login command)  *)
(*             owner  the socket whose onopen awaits it (login), the       *)
(*                    manager call awaiting it (probe), else 0             *)
(*             tag    the tag allocated, 0 when none was                   *)
(*             out    the promise sendCommand returned: "pending" | "done" *)
(*                    | "rej_failed" | "rej_timeout" | "rej_send"          *)
(*             by     the reply tag that settled it (0: none did)          *)
(*             timer  the 30 s command timer is still to fire              *)
(*   calls[c]: pc     "awaitWs" | "awaitWsProbe" | "awaitHttp" |           *)
(*                    "awaitHttpProbe" | "done"                            *)
(*             cfg    the configuration the call was made with             *)
(*             before what config held when the call was made              *)
(*             wsOut  what wsApi.connect gave the call: "pending" | "true" *)
(*                    | "false" | "rejected"                               *)
(*             http   the number of HTTP requests the call issued          *)
(*             result "none" | "ok_ws" | "ok_http" | "fail_both" |         *)
(*                    "fail_none" | "threw"                                *)
(***************************************************************************)

SetCall(S, c, f, v) == [S EXCEPT !.calls[c][f] = v]
SetSock(S, s, f, v) == [S EXCEPT !.sock[s][f] = v]
SetCmd(S, i, f, v) == [S EXCEPT !.cmds[i][f] = v]

\* The command a tag is registered for in the callbacks map, 0 when none.
CallbackOf(S, tag) ==
    IF \E p \in S.callbacks : p[1] = tag
    THEN (CHOOSE p \in S.callbacks : p[1] = tag)[2]
    ELSE 0

HasCallback(S, tag) == \E p \in S.callbacks : p[1] = tag

DeleteCallback(S, tag) ==
    [S EXCEPT !.callbacks = {p \in S.callbacks : p[1] # tag}]

\* The 'Not connected to RouterOS' guard of sendCommand, line 115 (and the
\* guard without its test of the connected flag).
NotConnectedGuard_socketOnly(S) == S.ws = 0
NotConnectedGuard(S) == S.ws = 0 \/ ~S.connected

\* sendCommand: lines 113-146, up to the promise it returns.  A command the
\* guard rejects leaves no state behind: ret is "rej_notconn".  Otherwise the
\* command is cmds[Len(cmds)] of the result.  WebSocket.send throws on a socket
\* that is still connecting (the executor's exception rejects the promise; the
\* callback stays and no timer is set) and drops the data silently on a closing
\* or closed socket.
sendCommand(S, kind, op, owner) ==
    LET blank == [kind |-> kind, op |-> op, owner |-> owner, tag |-> 0,
                  out |-> "pending", by |-> 0, timer |-> FALSE]
    IN  IF NotConnectedGuard(S)
        THEN [S EXCEPT !.ret = "rej_notconn"]
        ELSE LET tag == S.tagCounter + 1
                 i == Len(S.cmds) + 1
                 reg == [S EXCEPT !.tagCounter = tag,
                                  !.callbacks = {p \in @ : p[1] # tag} \cup {<<tag, i>>}]
             IN  IF S.sock[S.ws].st = "connecting"
                 THEN [reg EXCEPT !.ret = "rej_send",
                                  !.cmds = Append(@, [blank EXCEPT !.tag = tag,
                                                                   !.out = "rej_send"])]
                 ELSE [reg EXCEPT
                         !.ret = "pending",
                         !.cmds = Append(@, [blank EXCEPT !.tag = tag, !.timer = TRUE]),
                         !.sock[S.ws].sent =
                             IF S.sock[S.ws].st = "open" THEN @ \cup {i} ELSE @]

\* The typed operations, lines 148-210: what the operation's promise holds for
\* a given state of the promise of sendCommand.  The queries pass it on; the
\* state-changing operations catch a rejection and return false.
typedResult(op, out) ==
    IF op \in BoolOps
    THEN CASE out = "pending" -> "pending"
           [] out = "done" -> "true"
           [] OTHER -> "false"
    ELSE out

\* RouterOSHTTPAPI: a fetch is issued for call c (connect's test request, or
\* the system-resource probe); the call waits for the response.
httpFetch(S, c, pc) ==
    [S EXCEPT !.calls[c].pc = pc, !.calls[c].http = @ + 1]

\* MikroTikAPIManager.connect from the end of the WebSocket attempt: the HTTP
\* fallback (lines 365-367).
httpAttempt(S, c) == httpFetch(S, c, "awaitHttp")

\* MikroTikAPIManager.connect after `await this.wsApi.connect(...)` for call c.
mgrAfterWs(S, c, out) ==
    LET S0 == SetCall(S, c, "wsOut", out)
    IN  IF out = "true"
        THEN LET S1 == sendCommand([S0 EXCEPT !.currentApi = "ws"],
                                   "probe", "getSystemResource", c)
             IN  IF S1.ret = "pending"
                 THEN SetCall(S1, c, "pc", "awaitWsProbe")
                 ELSE httpAttempt(S1, c)
        ELSE httpAttempt(S0, c)

\* Handlers that settle the promise of the instance's current socket rather
\* than the promise of the connect call that installed them.
settleConn_current(S, s, out) ==
    LET n == IF S.ws = 0 THEN s ELSE S.ws
    IN  IF S.sock[n].connP # "pending"
        THEN S
        ELSE LET S1 == SetSock(S, n, "connP", out)
                 c == S.sock[n].owner
             IN  IF c = 0
                 THEN S1
                 ELSE mgrAfterWs(S1, c, IF out \in {"true", "false"} THEN out ELSE "rejected")

\* The connect() promise of socket s is resolved or rejected; a promise that is
\* already settled stays as it is.  The manager call awaiting it continues.
settleConn(S, s, out) ==
    IF S.sock[s].connP # "pending"
    THEN S
    ELSE LET S1 == SetSock(S, s, "connP", out)
             c == S.sock[s].owner
         IN  IF c = 0
             THEN S1
             ELSE mgrAfterWs(S1, c, IF out \in {"true", "false"} THEN out ELSE "rejected")

\* ws.onopen after `await this.login()`: lines 49-50.
onopenCont(S, s, loginResult) ==
    settleConn([S EXCEPT !.connected = loginResult], s,
               IF loginResult THEN "true" ELSE "false")

\* The promise of command i is settled (a settled promise stays as it is) and
\* the code awaiting it continues: login() and ws.onopen for the login command,
\* MikroTikAPIManager.connect for its probe.
settleCmd(S, i, out, replyTag) ==
    IF S.cmds[i].out # "pending"
    THEN S
    ELSE LET S1 == [S EXCEPT !.cmds[i].out = out, !.cmds[i].by = replyTag]
             k == S.cmds[i].kind
         IN  CASE k = "login" -> onopenCont(S1, S.cmds[i].owner, out = "done")
               [] k = "probe" ->
                    IF out = "done"
                    THEN [S1 EXCEPT !.calls[S.cmds[i].owner].pc = "done",
                                    !.calls[S.cmds[i].owner].result = "ok_ws"]
                    ELSE httpAttempt(S1, S.cmds[i].owner)
               [] OTHER -> S1

\* login(): submit /login over the socket and wait for its reply.
login(S, s) == sendCommand(S, "login", "login", s)

\* ws.onopen taking the session as authenticated without a login.
onopen_authenticated(S, s) == onopenCont(SetSock(S, s, "opened", TRUE), s, TRUE)

\* ws.onopen: lines 45-54.  A synchronous rejection by sendCommand is caught by
\* login(), which returns false.
onopen(S, s) ==
    LET S0 == SetSock(S, s, "opened", TRUE)
        S1 == login(S0, s)
    IN  IF S1.ret = "pending"
        THEN S1
        ELSE onopenCont(S1, s, FALSE)

\* ws.onerror reporting the failure as "not authenticated".
onerror_notAuthenticated(S, s) == settleConn(S, s, "false")

\* ws.onerror: line 57.
onerror(S, s) == settleConn(S, s, "rej_failed")

\* ws.onclose: line 65.
onclose(S, s) == [S EXCEPT !.connected = FALSE]

\* The 10 s timer of connect with a callback that rejects nothing.
connectTimer_noReject(S, s) == SetSock(S, s, "timer", FALSE)

\* The 10 s timer of connect: lines 69-73.
connectTimer(S, s) ==
    LET S1 == SetSock(S, s, "timer", FALSE)
    IN  IF ~S.connected THEN settleConn(S1, s, "rej_timeout") ELSE S1

\* WebSocket.close(): the close event follows later, as a task of its own.
closeSocket(S, s) ==
    SetSock(S, s, "st",
            CASE S.sock[s].st = "connecting" -> "abort"
              [] S.sock[s].st = "open" -> "closing"
              [] OTHER -> S.sock[s].st)

\* disconnect that only lowers the flag and clears the map, leaving the
\* socket.
disconnect_flagOnly(S) == [S EXCEPT !.connected = FALSE, !.callbacks = {}]

\* RouterOSAPI.disconnect: lines 212-219.
disconnect(S) ==
    LET S1 == IF S.ws # 0 THEN [closeSocket(S, S.ws) EXCEPT !.ws = 0] ELSE S
    IN  [S1 EXCEPT !.connected = FALSE, !.callbacks = {}]

\* handleMessage with an unmatched reply treated as a protocol error that tears
\* the session down.
handleMessage_teardown(S, tag, typ) ==
    IF typ = "malformed"
    THEN S
    ELSE LET i == CallbackOf(S, tag)
         IN  IF i = 0
             THEN disconnect(S)
             ELSE IF typ \in Terminal
                  THEN settleCmd(DeleteCallback(S, tag), i,
                                 IF typ = "done" THEN "done" ELSE "rej_failed", tag)
                  ELSE S

\* handleMessage: lines 98-111.  A reply is [tag, typ]; typ "malformed" is
\* data JSON.parse rejects (the catch logs it).  The callback of sendCommand
\* (lines 128-134) resolves on done, rejects on trap and fatal, and ignores
\* data; handleMessage then deletes the tag of a terminal reply.
handleMessage(S, tag, typ) ==
    IF typ = "malformed"
    THEN S
    ELSE LET i == CallbackOf(S, tag)
         IN  IF i = 0
             THEN S
             ELSE IF typ \in Terminal
                  THEN settleCmd(DeleteCallback(S, tag), i,
                                 IF typ = "done" THEN "done" ELSE "rej_failed", tag)
                  ELSE S

\* The 30 s timer of sendCommand: lines 139-144.
commandTimer(S, i) ==
    LET S1 == SetCmd(S, i, "timer", FALSE)
        tag == S.cmds[i].tag
    IN  IF HasCallback(S, tag)
        THEN settleCmd(DeleteCallback(S1, tag), i, "rej_timeout", 0)
        ELSE S1

\* RouterOSAPI.connect: lines 26-78, for a URL the WebSocket constructor
\* accepts.  The new socket replaces this.ws; the handlers and the 10 s timer
\* belong to the new socket.
connect(S, owner) ==
    LET s == Len(S.sock) + 1
    IN  [S EXCEPT !.ws = s,
                  !.sock = Append(@, [st |-> "connecting", connP |-> "pending",
                                      timer |-> TRUE, owner |-> owner,
                                      opened |-> FALSE, sent |-> {}])]

\* MikroTikAPIManager.connect up to its first await: lines 350-355.  With a
\* URL the WebSocket constructor rejects (a host that makes no URL, a ws: URL
\* on a page served over https), wsApi.connect throws
\* 'Connection failed', which the manager catches, and the HTTP attempt follows
\* in the same task.
mgrConnect(S, a, urlOk) ==
    LET c == Len(S.calls) + 1
        S1 == [S EXCEPT !.config = <<makeConfig(a)>>,
                        !.calls = Append(@, [pc |-> "awaitWs", cfg |-> makeConfig(a),
                                             before |-> S.config,
                                             wsOut |-> "pending", http |-> 0,
                                             result |-> "none"])]
    IN  IF urlOk
        THEN connect(S1, c)
        ELSE httpAttempt(SetCall(S1, c, "wsOut", "rejected"), c)

\* The catch of the HTTP attempt, line 375: the template reads wsError, the
\* binding of the catch clause of lines 361-363, which is not in scope here;
\* evaluating it throws a ReferenceError out of connect.
httpCatch(S, c) ==
    [S EXCEPT !.calls[c].pc = "done", !.calls[c].result = "threw"]

\* mgrAfterHttp without the assignment of line 369.
mgrAfterHttp_notRecorded(S, c, ok) ==
    IF S.calls[c].pc = "awaitHttp"
    THEN IF ok
         THEN httpFetch(S, c, "awaitHttpProbe")
         ELSE httpCatch(S, c)
    ELSE IF ok
         THEN [S EXCEPT !.calls[c].pc = "done", !.calls[c].result = "ok_http"]
         ELSE httpCatch(S, c)

\* MikroTikAPIManager.connect after a fetch of its HTTP attempt has answered:
\* lines 367-376, with RouterOSHTTPAPI.connect (lines 242-257) and makeRequest
\* (lines 275-281).  ok is response.ok; a network error is not ok either.
mgrAfterHttp(S, c, ok) ==
    IF S.calls[c].pc = "awaitHttp"
    THEN IF ok
         THEN httpFetch([S EXCEPT !.currentApi = "http"], c, "awaitHttpProbe")
         ELSE httpCatch(S, c)
    ELSE IF ok
         THEN [S EXCEPT !.calls[c].pc = "done", !.calls[c].result = "ok_http"]
         ELSE httpCatch(S, c)

\* JSON.stringify and JSON.parse of a number: its decimal text, for the ports
\* of the model.
numberText(n) ==
    CASE n = DefaultPort -> "8728"
      [] n = 8291 -> "8291"

textNumber(v) ==
    CASE v = "8728" -> DefaultPort
      [] v = "8291" -> 8291

\* JSON.stringify of a configuration: the text, as its members in order.  A
\* member is its key, the kind of its token and the token's characters.
JSONstringify(c) ==
    << [k |-> "host", t |-> "string", v |-> c.host],
       [k |-> "username", t |-> "string", v |-> c.username],
       [k |-> "password", t |-> "string", v |-> c.password],
       [k |-> "port", t |-> "number", v |-> numberText(c.port)],
       [k |-> "useHttps", t |-> "literal", v |-> IF c.useHttps THEN "true" ELSE "false"] >>

\* The value JSON.parse gives member key of a text.
Member(txt, key) == txt[CHOOSE n \in 1..Len(txt) : txt[n].k = key]

\* JSON.parse that takes every non-empty token of a literal for true.
JSONparse_truthy(txt) ==
    [host |-> Member(txt, "host").v,
     username |-> Member(txt, "username").v,
     password |-> Member(txt, "password").v,
     port |-> textNumber(Member(txt, "port").v),
     useHttps |-> Member(txt, "useHttps").v # ""]

\* JSON.parse of a text JSON.stringify made of a configuration.
JSONparse(txt) ==
    [host |-> Member(txt, "host").v,
     username |-> Member(txt, "username").v,
     password |-> Member(txt, "password").v,
     port |-> textNumber(Member(txt, "port").v),
     useHttps |-> Member(txt, "useHttps").v = "true"]

\* MikroTikAPIManager.saveConfig: lines 432-436.
saveConfig(S) ==
    IF S.config # <<>>
    THEN [S EXCEPT !.storage = JSONstringify(S.config[1])]
    ELSE S

\* MikroTikAPIManager.loadConfig: lines 438-445.  ret is what it returns.
loadConfig(S) ==
    IF S.storage # <<>>
    THEN [S EXCEPT !.config = <<JSONparse(S.storage)>>, !.ret = "true"]
    ELSE [S EXCEPT !.ret = "false"]

\* MikroTikAPIManager.getCurrentMethod: lines 428-430.
getCurrentMethod(S) == S.currentApi

\* isConnected answering from the socket reference instead of the flag.
isConnected_socketHeld(S) == S.ws # 0

\* RouterOSAPI.isConnected: lines 221-223.
isConnected(S) == S.connected

\* MikroTikAPIManager.isConnected: lines 415-419.
mgrIsConnected(S) ==
    IF S.currentApi = "ws"
    THEN isConnected(S)
    ELSE S.currentApi = "http"

\* MikroTikAPIManager.getActiveApi: lines 381-385.  "null" stands for the throw
\* of 'No active API connection'.
getActiveApi(S) == S.currentApi

\* The manager's typed operations: lines 387-413.  ret is what the promise of
\* the operation holds when the call returns: "rej_noapi" when getActiveApi
\* throws (the async function rejects), the promise of the RouterOSAPI
\* operation for 'ws', and "fetch" for 'http': RouterOSHTTPAPI.makeRequest
\* has issued a request (line 275), whose answer changes no state.
mgrOp(S, op) ==
    CASE getActiveApi(S) = "null" -> [S EXCEPT !.ret = "rej_noapi"]
      [] getActiveApi(S) = "ws" ->
            LET T == sendCommand(S, "op", op, 0)
            IN  [T EXCEPT !.ret = typedResult(op, T.ret)]
      [] OTHER -> [S EXCEPT !.ret = "fetch"]

\* MikroTikAPIManager.disconnect: lines 421-426.
mgrDisconnect(S) ==
    [(IF S.currentApi = "ws" THEN disconnect(S) ELSE S) EXCEPT !.currentApi = "null"]

(***************************************************************************)
(* Actions: one per task.                                                  *)
(***************************************************************************)

\* A caller invokes RouterOSAPI.connect.  With a URL the WebSocket constructor
\* rejects, connect throws 'Connection failed' before this.ws is assigned.
ApiConnect ==
    \E urlOk \in BOOLEAN :
        IF urlOk
        THEN /\ Len(sock) < MaxSockets
             /\ Commit(connect(Cur, 0), Event("connect", Len(sock) + 1, 0, 0))
        ELSE Commit(Cur, Event("connect", 0, 0, 0))

\* A caller invokes a typed operation of RouterOSAPI (lines 148-210).
ApiOp ==
    /\ Cardinality({i \in 1..Len(cmds) : cmds[i].kind = "op"}) < MaxOps
    /\ \E op \in Ops :
          LET T == sendCommand(Cur, "op", op, 0)
          IN  Commit(T, OpEvent(op, IF T.ret = "rej_notconn" THEN 0 ELSE Len(T.cmds),
                                typedResult(op, T.ret)))

\* A caller invokes RouterOSAPI.disconnect.
ApiDisconnect ==
    Commit(disconnect(Cur), Event("disconnect", ws, 0, 0))

\* The socket opens: the open event.
SockOpen ==
    \E s \in 1..Len(sock) :
        /\ sock[s].st = "connecting"
        /\ Commit(onopen(SetSock(Cur, s, "st", "open"), s), Event("open", s, 0, 0))

\* The connection fails: the error event, then the close event.
SockFail ==
    \E s \in 1..Len(sock) :
        /\ sock[s].st \in {"connecting", "open", "closing", "abort"}
        /\ Commit(onclose(onerror(SetSock(Cur, s, "st", "closed"), s), s),
                  Event("fail", s, 0, 0))

\* The connection closes cleanly: the close event.
SockClose ==
    \E s \in 1..Len(sock) :
        /\ sock[s].st \in {"open", "closing"}
        /\ Commit(onclose(SetSock(Cur, s, "st", "closed"), s),
                  Event("close", s, 0, 0))

\* The router's side sends a message: the message event.
SockMessage ==
    \E s \in 1..Len(sock), tag \in 0..MaxTag, typ \in ReplyTypes \cup {"malformed"} :
        /\ sock[s].st \in {"open", "closing"}
        /\ Commit(handleMessage(Cur, tag, typ), Event("message", 0, CallbackOf(Cur, tag), tag))

\* A timer fires: the 10 s timer of a connect call (<<"connect", s>>) or the
\* 30 s timer of a command (<<"command", i>>).
ArmedTimers(S) ==
    {<<"connect", s>> : s \in {x \in 1..Len(S.sock) : S.sock[x].timer}}
      \cup {<<"command", i>> : i \in {x \in 1..Len(S.cmds) : S.cmds[x].timer}}

TimerFires ==
    \E t \in ArmedTimers(Cur) :
        IF t[1] = "connect"
        THEN Commit(connectTimer(Cur, t[2]), Event("connectTimer", t[2], 0, 0))
        ELSE Commit(commandTimer(Cur, t[2]), Event("commandTimer", 0, t[2], cmds[t[2]].tag))

\* A caller invokes MikroTikAPIManager.connect.
MgrConnect ==
    /\ Len(calls) < MaxCalls
    /\ \E a \in ConnectArgs, urlOk \in BOOLEAN :
          /\ urlOk => Len(sock) < MaxSockets
          /\ Commit(mgrConnect(Cur, a, urlOk),
                    Event("mgrConnect", 0, Len(calls) + 1, 0))

\* A fetch of a manager call's HTTP attempt is answered (or fails).
HttpResponse ==
    \E c \in 1..Len(calls), ok \in BOOLEAN :
        /\ calls[c].pc \in {"awaitHttp", "awaitHttpProbe"}
        /\ Commit(mgrAfterHttp(Cur, c, ok),
                  Event("http", 0, c, 0))

\* A caller invokes MikroTikAPIManager.disconnect.  The history records
\* whether the task before it was a disconnect() as well.
MgrDisconnect ==
    Commit(mgrDisconnect(Cur),
           [Event("mgrDisconnect", 0, 0, 0)
               EXCEPT !.res = IF last.ev = "mgrDisconnect" THEN "again" ELSE ""])

\* A RouterOSAPI driven by its caller and by its sockets and timers.
Next ==
    \/ ApiConnect
    \/ ApiOp
    \/ ApiDisconnect
    \/ SockOpen
    \/ SockFail
    \/ SockClose
    \/ SockMessage
    \/ TimerFires

Spec == Init /\ [][Next]_vars

\* The same, with the event loop running every timer that is due: a callback
\* given to setTimeout is called eventually.  Nothing is assumed of the
\* sockets or of the caller.
SpecLive == Spec /\ WF_vars(TimerFires)

\* The MikroTikAPIManager driven by its caller; its private wsApi is reached
\* through the manager only.
NextMgr ==
    \/ MgrConnect
    \/ MgrDisconnect
    \/ HttpResponse
    \/ SockOpen
    \/ SockFail
    \/ SockClose
    \/ SockMessage
    \/ TimerFires

SpecMgr == Init /\ [][NextMgr]_vars

\* A caller invokes MikroTikAPIManager.connect again: an earlier call exists,
\* returned or still in flight.
MgrReconnect ==
    /\ Len(calls) >= MaxCalls
    /\ Len(calls) < MaxCalls + MaxReconnects
    /\ \E a \in ConnectArgs, urlOk \in BOOLEAN :
          /\ urlOk => Len(sock) < MaxSockets
          /\ Commit(mgrConnect(Cur, a, urlOk),
                    Event("mgrConnect", 0, Len(calls) + 1, 0))

\* The manager, connected more than once.
NextReconnect ==
    \/ NextMgr
    \/ MgrReconnect

SpecReconnect == Init /\ [][NextReconnect]_vars

\* A caller invokes a typed operation of the manager.
MgrOp ==
    /\ Cardinality({i \in 1..Len(cmds) : cmds[i].kind = "op"}) < MaxOps
    /\ \E op \in Ops :
          LET T == mgrOp(Cur, op)
          IN  Commit(T, [OpEvent(op, IF T.cmds = cmds THEN 0 ELSE Len(T.cmds), T.ret)
                            EXCEPT !.ev = "mgrOp"])

\* The manager with its typed operations.
NextOps ==
    \/ NextMgr
    \/ MgrOp

SpecOps == Init /\ [][NextOps]_vars

\* A caller invokes MikroTikAPIManager.saveConfig.
SaveConfig ==
    Commit(saveConfig(Cur), Event("saveConfig", 0, 0, 0))

\* A caller invokes MikroTikAPIManager.loadConfig.
LoadConfig ==
    LET T == loadConfig(Cur)
    IN  Commit(T, [Event("loadConfig", 0, 0, 0) EXCEPT !.res = T.ret])

\* The page is loaded again: the module is evaluated anew (line 448 makes a
\* new manager) and localStorage keeps its items.
Reload ==
    /\ ws' = 0
    /\ connected' = FALSE
    /\ callbacks' = {}
    /\ tagCounter' = 0
    /\ sock' = <<>>
    /\ cmds' = <<>>
    /\ currentApi' = "null"
    /\ config' = <<>>
    /\ calls' = <<>>
    /\ storage' = storage
    /\ UNCHANGED <<activeUser, dataUsage, connections, requests, proxy>>
    /\ last' = Event("reload", 0, 0, 0)

\* The manager with its configuration kept in localStorage across page loads.
\* Inbound messages are left out: handleMessage reads and writes neither the
\* configuration nor localStorage.
NextStore ==
    \/ MgrConnect
    \/ MgrDisconnect
    \/ HttpResponse
    \/ SockOpen
    \/ SockFail
    \/ SockClose
    \/ TimerFires
    \/ SaveConfig
    \/ LoadConfig
    \/ Reload

SpecStore == Init /\ [][NextStore]_vars

(***************************************************************************)
(* The dashboard's reading of a hotspot row: api.getActiveHotspotUsers     *)
(* (src/unnamed/part_003, lines 449-472).                                  *)
(***************************************************************************)

\* The characters of the model's strings: decimal digits, a letter that is a
\* hexadecimal digit, the x of a hexadecimal prefix and the minus sign.  (No
\* white space and no plus sign, which parseInt would skip.)
Chars == {"0", "2", "5", "a", "x", "-"}

\* A string is the sequence of its characters.
Strings == UNION {[1..n -> Chars] : n \in 0..MaxLen}

\* A property of a row: <<>> when the row has none (undefined), <<s>> for the
\* string s.
Counters == {<<>>} \cup {<<s>> : s \in Strings}

Rows == [bytesIn : Counters, bytesOut : Counters]

\* ToString (the abstract operation) of a property, the first step of parseInt.
toString(v) ==
    IF v = <<>>
    THEN <<"u", "n", "d", "e", "f", "i", "n", "e", "d">>
    ELSE v[1]

\* The value of a character as a digit, and whether it is a digit of the radix.
digitValue(c) ==
    CASE c = "0" -> 0
      [] c = "2" -> 2
      [] c = "5" -> 5
      [] c = "a" -> 10
      [] OTHER -> 36

IsDigit(c, radix) == digitValue(c) < radix

\* parseInt reading digits from position k on: acc is <<>> while no digit has
\* been read, then <<the value so far>>.
RECURSIVE readDigits(_, _, _, _)
readDigits(s, k, radix, acc) ==
    IF k > Len(s) \/ ~IsDigit(s[k], radix)
    THEN acc
    ELSE readDigits(s, k + 1, radix,
                    <<(IF acc = <<>> THEN 0 ELSE acc[1]) * radix + digitValue(s[k])>>)

\* parseInt(v) with no radix given: a sign, a 0x prefix that selects radix 16,
\* then the longest run of digits; <<>> is NaN.
parseInt(v) ==
    LET s == toString(v)
        neg == Len(s) >= 1 /\ s[1] = "-"
        a == IF neg THEN 2 ELSE 1
        hex == Len(s) >= a + 1 /\ s[a] = "0" /\ s[a + 1] = "x"
        m == readDigits(s, IF hex THEN a + 2 ELSE a, IF hex THEN 16 ELSE 10, <<>>)
    IN  IF m = <<>>
        THEN <<>>
        ELSE <<IF neg THEN 0 - m[1] ELSE m[1]>>

\* `x || 0` for a number x: NaN and 0 are falsy.
orZero(x) == IF x = <<>> \/ x = <<0>> THEN 0 ELSE x[1]

\* dataUsage counting bytes-in only.
dataUsageOf_inOnly(user) == orZero(parseInt(user.bytesIn))

\* The dataUsage of a row, line 462.
dataUsageOf(user) ==
    orZero(parseInt(user.bytesIn)) + orZero(parseInt(user.bytesOut))

\* getHotspotActive resolves with a row.
HotspotActive ==
    /\ activeUser = <<>>
    /\ \E r \in Rows : activeUser' = <<r>>
    /\ UNCHANGED <<ws, connected, callbacks, tagCounter, sock, cmds, currentApi,
                   config, calls, storage, dataUsage, connections, requests, proxy>>
    /\ last' = Event("hotspotActive", 0, 0, 0)

\* The map callback of getActiveHotspotUsers computes the row's dataUsage.
MapUser ==
    /\ activeUser # <<>>
    /\ dataUsage = <<>>
    /\ dataUsage' = <<dataUsageOf(activeUser[1])>>
    /\ UNCHANGED <<ws, connected, callbacks, tagCounter, sock, cmds, currentApi,
                   config, calls, storage, activeUser, connections, requests, proxy>>
    /\ last' = Event("mapUser", 0, 0, 0)

NextUsage ==
    \/ HotspotActive
    \/ MapUser

SpecUsage == Init /\ [][NextUsage]_vars

(***************************************************************************)
(* The server (express): the registry `connections` and its endpoints.     *)
(*   requests[r]: key   the connection id of the request                   *)
(*                pc    "tcpTest" | "connect" | "done"                     *)
(*                conn  the SimpleRouterOSAPI the handler created: "none", *)
(*                      "connecting", "open" (connected), "idle" (the      *)
(*                      socket is up, connected false after a timeout) or  *)
(*                      "down" (the socket had an error)                   *)
(*                res   the answer: "none" | "ok" | "fail"                 *)
(* The SIGINT handler ends the process and is not an action.               *)
(***************************************************************************)
Srv == [connections |-> connections, requests |-> requests]

CommitSrv(T, ev) ==
    /\ connections' = T.connections
    /\ requests' = T.requests
    /\ UNCHANGED <<ws, connected, callbacks, tagCounter, sock, cmds, currentApi,
                   config, calls, storage, activeUser, dataUsage, proxy>>
    /\ last' = ev

SrvEvent(ev, key, i, op, res) ==
    [ev |-> ev, s |-> 0, i |-> i, tag |-> 0, op |-> op, res |-> res, key |-> key]

\* The catch of the connect handler: the answer success false.
connectFailed(S, r) ==
    IF S.requests[r].pc = "done"
    THEN S
    ELSE [S EXCEPT !.requests[r].pc = "done", !.requests[r].res = "fail"]

\* POST /api/mikrotik/connect up to the TCP test.
postConnect(S, host, port) ==
    [S EXCEPT !.requests = Append(@, [key |-> connectionId(host, port), pc |-> "tcpTest",
                                      conn |-> "none", res |-> "none"])]

\* A connect handler that stores the connection as soon as it is created.
tcpTested_stored(S, r, canConnect) ==
    IF canConnect
    THEN [S EXCEPT !.requests[r].pc = "connect", !.requests[r].conn = "connecting",
                   !.connections[S.requests[r].key] = r]
    ELSE [S EXCEPT !.requests[r].pc = "done", !.requests[r].res = "fail"]

\* The TCP test ended: the answer success false, or the connection is created
\* and conn.connect() awaited.
tcpTested(S, r, canConnect) ==
    IF canConnect
    THEN [S EXCEPT !.requests[r].pc = "connect", !.requests[r].conn = "connecting"]
    ELSE [S EXCEPT !.requests[r].pc = "done", !.requests[r].res = "fail"]

\* The socket of the connection connects: connected = true and resolve(); the
\* handler awaiting it runs the probe, stores the connection and answers.
onConnect(S, r) ==
    LET S1 == [S EXCEPT !.requests[r].conn = "open"]
    IN  IF S.requests[r].pc = "connect"
        THEN [S1 EXCEPT !.connections[S.requests[r].key] = r,
                        !.requests[r].pc = "done", !.requests[r].res = "ok"]
        ELSE S1

\* The socket's error event: connected = false and reject(error).
onSocketError(S, r) == connectFailed([S EXCEPT !.requests[r].conn = "down"], r)

\* The socket's timeout event: connected = false and reject; the socket stays.
onSocketTimeout(S, r) ==
    connectFailed([S EXCEPT !.requests[r].conn =
                               IF @ = "open" THEN "idle" ELSE @], r)

\* A data endpoint: the request whose connection it writes to, 0 when the
\* registry has none and the answer is 400.
dataEndpoint(S, host, port) == S.connections[connectionId(host, port)]

Endpoints == {"system-resource", "interfaces", "hotspot-active", "disconnect-user"}

PostConnect ==
    /\ Len(requests) < MaxRequests
    /\ \E h \in Hosts, p \in PortInputs :
          CommitSrv(postConnect(Srv, h, p),
                    SrvEvent("postConnect", connectionId(h, p), Len(requests) + 1, "", ""))

TcpTest ==
    \E r \in 1..Len(requests), canConnect \in BOOLEAN :
        /\ requests[r].pc = "tcpTest"
        /\ CommitSrv(tcpTested(Srv, r, canConnect),
                     SrvEvent("tcpTest", requests[r].key, r, "", ""))

ConnOpened ==
    \E r \in 1..Len(requests) :
        /\ requests[r].conn = "connecting"
        /\ CommitSrv(onConnect(Srv, r), SrvEvent("connOpened", requests[r].key, r, "", ""))

ConnError ==
    \E r \in 1..Len(requests) :
        /\ requests[r].conn \in {"connecting", "open", "idle"}
        /\ CommitSrv(onSocketError(Srv, r), SrvEvent("connError", requests[r].key, r, "", ""))

ConnTimeout ==
    \E r \in 1..Len(requests) :
        /\ requests[r].conn = "open" \/ (requests[r].conn = "connecting" /\ requests[r].pc = "connect")
        /\ CommitSrv(onSocketTimeout(Srv, r),
                     SrvEvent("connTimeout", requests[r].key, r, "", ""))

\* A data endpoint is requested: i is the request whose connection was
\* written to, 0 when none was.
DataRequest ==
    \E h \in Hosts, p \in PortInputs, e \in Endpoints :
        LET c == dataEndpoint(Srv, h, p)
        IN  CommitSrv(Srv, SrvEvent("data", connectionId(h, p), c, e,
                                    IF c = 0 THEN "400" ELSE "200"))

NextServer ==
    \/ PostConnect
    \/ TcpTest
    \/ ConnOpened
    \/ ConnError
    \/ ConnTimeout
    \/ DataRequest

SpecServer == Init /\ [][NextServer]_vars

(***************************************************************************)
(* The backend-proxy MikroTikAPIManager, which reaches the router through  *)
(* the server's endpoints.                                                 *)
(*   proxy.calls[c]: cfg     the configuration the call was made with      *)
(*                   result  "none" (awaiting the backend) | "ok" | "fail" *)
(* The answer to a typed operation's request changes no state and is not   *)
(* an action.                                                              *)
(***************************************************************************)
ProxyOps == {"getSystemResource", "getInterfaces", "getHotspotActive", "disconnectActiveUser"}

\* `port || 8728`: port 0 stands for an argument not given.
proxyConfig(a) ==
    [host |-> a.host, username |-> a.username, password |-> a.password,
     port |-> IF a.port = 0 THEN ProxyPort ELSE a.port]

\* connect up to the fetch of /api/mikrotik/connect.
proxyConnect(P, a) ==
    [P EXCEPT !.config = <<proxyConfig(a)>>,
              !.calls = Append(@, [cfg |-> proxyConfig(a), result |-> "none"])]

\* connect after the fetch: the backend answered success true ("success") or
\* success false ("failure"), or fetch or response.json() threw ("error").
proxyResponse(P, c, out) ==
    IF out = "success"
    THEN [P EXCEPT !.connected = TRUE, !.calls[c].result = "ok"]
    ELSE [P EXCEPT !.calls[c].result = "fail"]

\* makeRequest: it throws 'Not connected. Please connect first.' or sends the
\* request for the host and port of the config.
makeRequest(P) == IF P.config = <<>> THEN "rej_notconnected" ELSE "fetch"

\* A typed operation: what its promise holds when the call returns.
\* disconnectActiveUser catches the rejection and resolves false.
proxyOp(P, op) ==
    IF op = "disconnectActiveUser" /\ makeRequest(P) = "rej_notconnected"
    THEN "false"
    ELSE makeRequest(P)

proxyIsConnected(P) == P.connected

proxyDisconnect(P) == [P EXCEPT !.connected = FALSE, !.config = <<>>]

CommitProxy(Q, ev) ==
    /\ proxy' = Q
    /\ UNCHANGED <<ws, connected, callbacks, tagCounter, sock, cmds, currentApi,
                   config, calls, storage, activeUser, dataUsage, connections,
                   requests>>
    /\ last' = ev

ProxyConnect ==
    /\ Len(proxy.calls) < MaxProxyCalls
    /\ \E a \in ConnectArgs :
          CommitProxy(proxyConnect(proxy, a),
                      Event("proxyConnect", 0, Len(proxy.calls) + 1, 0))

ProxyResponse ==
    \E c \in 1..Len(proxy.calls), out \in {"success", "failure", "error"} :
        /\ proxy.calls[c].result = "none"
        /\ CommitProxy(proxyResponse(proxy, c, out), Event("proxyResponse", 0, c, 0))

ProxyOp ==
    \E op \in ProxyOps :
        CommitProxy(proxy, [OpEvent(op, 0, proxyOp(proxy, op)) EXCEPT !.ev = "proxyOp"])

ProxyDisconnect ==
    CommitProxy(proxyDisconnect(proxy), Event("proxyDisconnect", 0, 0, 0))

NextProxy ==
    \/ ProxyConnect
    \/ ProxyResponse
    \/ ProxyOp
    \/ ProxyDisconnect

SpecProxy == Init /\ [][NextProxy]_vars

(***************************************************************************)
(* Properties.                                                             *)
(***************************************************************************)

\* No command ever passes the guard of sendCommand: connected is set only from
\* the result of login(), and login() is refused while connected is false.
\* (Holds under Spec and under SpecMgr.)
NoCommandAccepted ==
    /\ ~connected
    /\ tagCounter = 0
    /\ callbacks = {}
    /\ cmds = <<>>
    /\ currentApi # "ws"

Sockets == 1..Len(sock)
Commands == 1..Len(cmds)

\* The login command that the onopen handler of socket s submitted, as a set
\* (empty when sendCommand refused it).
LoginOf(s) == {i \in Commands : cmds[i].kind = "login" /\ cmds[i].owner = s}

\* C1: once the open event of a socket has been handled, a /login command has
\* been written to that socket; connect resolves true only on a done reply to
\* it and resolves false only on a trap or fatal reply to it.
C1_LoginSubmittedOnOpen ==
    \A s \in Sockets :
        sock[s].opened =>
            /\ \E i \in LoginOf(s) : i \in sock[s].sent
            /\ sock[s].connP = "true" => \E i \in LoginOf(s) : cmds[i].out = "done"
            /\ sock[s].connP = "false" => \E i \in LoginOf(s) : cmds[i].out = "rej_failed"

\* The login handshake of some socket of the instance has completed with done.
HandshakeDone == \E i \in Commands : cmds[i].kind = "login" /\ cmds[i].out = "done"

\* What a typed operation gives its caller when sendCommand refuses it.
RefusedResult(op) == typedResult(op, "rej_notconn")

\* The task was a message whose tag has no entry in the callbacks map.
UnmatchedMessage ==
    /\ last'.ev = "message"
    /\ ~HasCallback(Cur, last'.tag)

\* C4: a reply whose tag matches no pending command (an unknown tag, no tag,
\* or a tag already retired) changes nothing: the callbacks map, the connected
\* flag, the pending commands and their outcomes, the sockets and the connect
\* promises all stay as they are.
C4_UnmatchedReplyDiscarded ==
    [][UnmatchedMessage =>
          UNCHANGED <<ws, connected, callbacks, tagCounter, sock, cmds,
                      currentApi, config, calls>>]_vars

\* C4 witness: replies with an unknown tag and with no tag have arrived on an
\* open socket.
C4_Witness ==
    /\ last.ev = "message"
    /\ last.tag > 0
    /\ ~HasCallback(Cur, last.tag)
    /\ \E s \in Sockets : sock[s].st = "open" /\ sock[s].opened

\* C7 (as claimed): every typed operation invoked before the handshake has
\* succeeded fails with the not-connected error.
C7_RefusedWithError ==
    (last.ev = "op" /\ ~HandshakeDone) => last.res = "rej_notconn"

\* The task was a typed operation invoked before a handshake has succeeded.
OpBeforeHandshake == last'.ev = "op" /\ ~HandshakeDone

\* C7 (amended): a command other than /login is written to a socket only if
\* that socket is the current one, is open, and its login completed with done;
\* a typed operation invoked before the
\* handshake has succeeded is refused (the queries reject with the
\* not-connected error, the state-changing operations return false), writes
\* nothing to any socket and registers no pending command.
C7_NoSubmissionBeforeHandshake ==
    [][/\ \A s \in Sockets : \A i \in sock'[s].sent \ sock[s].sent :
              cmds'[i].kind # "login" =>
                  /\ s = ws
                  /\ sock[s].st = "open"
                  /\ \E j \in LoginOf(s) : cmds[j].out = "done"
       /\ OpBeforeHandshake =>
              /\ last'.res = RefusedResult(last'.op)
              /\ last'.i = 0
              /\ UNCHANGED <<ws, connected, callbacks, tagCounter, sock, cmds>>]_vars

\* C7 witness: a state-changing operation was invoked on an open socket whose
\* handshake has not succeeded, and was refused.
C7_Witness ==
    /\ last.ev = "op"
    /\ last.op \in BoolOps
    /\ last.res = "false"
    /\ ~HandshakeDone
    /\ ws # 0
    /\ sock[ws].st = "open"

Calls == 1..Len(calls)

\* C8: a manager call whose WebSocket session reported not authenticated
\* (wsApi.connect resolved false) issues no HTTP request.
C8_NoFallbackAfterAuthFailure ==
    \A c \in Calls : calls[c].wsOut = "false" => calls[c].http = 0

\* C9: a manager call that ended without success, after its WebSocket attempt
\* and its HTTP attempt both failed, resolved to the failure report naming both
\* reasons; it did not throw.
C9_FailureReportResolves ==
    \A c \in Calls :
        (calls[c].pc = "done" /\ calls[c].result \notin {"ok_ws", "ok_http"})
            => calls[c].result = "fail_both"

\* The method a successful result names, as currentApi holds it.
MethodOf(result) ==
    CASE result = "ok_ws" -> "ws"
      [] result = "ok_http" -> "http"
      [] OTHER -> "null"

\* Call c returns success in this step.
ReturnsSuccess(c) ==
    /\ calls[c].result = "none"
    /\ calls'[c].result \in {"ok_ws", "ok_http"}

\* Call c selects a method in this step: its session has authenticated and
\* the call goes on to the probe.
Selects(c) ==
    \/ calls[c].pc = "awaitHttp" /\ calls'[c].pc = "awaitHttpProbe"
    \/ calls[c].pc = "awaitWs" /\ calls'[c].pc = "awaitWsProbe"

\* C10 (as claimed): when a call returns success, the method its result names
\* is the current method.
C10_MethodRecordedAtReturn ==
    [][\A c \in Calls : ReturnsSuccess(c) => currentApi' = MethodOf(calls'[c].result)]_vars

\* C10 (amended): the HTTP attempt of a call starts only after its WebSocket
\* attempt has ended, and never in a call whose WebSocket session authenticated;
\* the call that selects HTTP records it as current method in the step that
\* issues the system-resource probe over HTTP; a call returns success only when
\* that probe answers, naming the method it selected; and once recorded, the
\* method stays the current method until disconnect() is called.
C10_OrderProbeAndMethod ==
    [][/\ \A c \in 1..Len(calls') :
              /\ calls'[c].http > 0 => calls'[c].wsOut \in {"false", "rejected"}
              /\ calls'[c].pc = "awaitHttpProbe" => calls'[c].http = 2
              /\ calls'[c].result = "ok_http" => calls'[c].http = 2
              /\ calls'[c].result = "ok_ws" => calls'[c].http = 0 /\ calls'[c].wsOut = "true"
       /\ \A c \in Calls :
              /\ Selects(c) =>
                     currentApi' = (IF calls'[c].pc = "awaitHttpProbe" THEN "http" ELSE "ws")
              /\ ReturnsSuccess(c) =>
                     /\ calls[c].pc = "awaitHttpProbe" => calls'[c].result = "ok_http"
                     /\ calls[c].pc = "awaitWsProbe" => calls'[c].result = "ok_ws"
                     /\ currentApi' \in {MethodOf(calls'[c].result), "null"}
       /\ (currentApi # "null" /\ currentApi' # currentApi)
              => \/ last'.ev = "mgrDisconnect" /\ currentApi' = "null"
                 \/ \E c \in Calls : Selects(c)]_vars

\* C10 witness: a call whose WebSocket attempt ended without authentication
\* went on to HTTP, probed over HTTP and returned success, and HTTP is the
\* current method.
C10_Witness ==
    \E c \in Calls :
        /\ calls[c].result = "ok_http"
        /\ calls[c].wsOut = "false"
        /\ calls[c].http = 2
        /\ currentApi = "http"
        /\ last.ev = "http"

\* The sockets that are open.
OpenSockets == {s \in Sockets : sock[s].st = "open"}

\* C11: at most one WebSocket created by the manager's RouterOSAPI is open at
\* a time.
C11_AtMostOneOpenSocket == Cardinality(OpenSockets) <= 1

\* The login command of socket s was answered with trap or fatal: the router
\* rejected the credentials.
CredentialsRejected(s) ==
    \E i \in LoginOf(s) : cmds[i].out = "rej_failed" /\ cmds[i].by # 0

\* C12: connect reports "not authenticated" (resolves false) only for a
\* credential rejection; a handshake that ended for any other reason (socket
\* error, socket close, no reply to login) has a different outcome.
C12_RejectionDistinguishable ==
    \A s \in Sockets : sock[s].connP = "false" => CredentialsRejected(s)

\* The connect promise of socket s gets outcome out in this step.
Settles(s, out) == sock[s].connP = "pending" /\ sock'[s].connP = out

\* C13: connect resolves false only once the onopen handler of its socket has
\* run, and it rejects with 'Connection timeout' only while no reply has
\* settled the login command of its socket.
C13_OutcomeOrder ==
    [][\A s \in Sockets :
          /\ Settles(s, "false") => sock'[s].opened
          /\ Settles(s, "rej_timeout") => \A i \in LoginOf(s) : cmds[i].by = 0]_vars

\* C13 witness: one connect call resolved false on a socket that had opened,
\* another was rejected by its 10 s timer.
C13_Witness ==
    /\ \E s \in Sockets : sock[s].connP = "false" /\ sock[s].opened
    /\ \E s \in Sockets : sock[s].connP = "rej_timeout" /\ ~sock[s].timer

\* The WebSocket session is live: the current socket is open and its login
\* completed with done.
LiveWsSession ==
    /\ ws # 0
    /\ sock[ws].st = "open"
    /\ \E i \in LoginOf(ws) : cmds[i].out = "done"

\* Some call's HTTP session is live: its test request was answered ok and no
\* request of the call has failed since.
LiveHttpSession ==
    \E c \in Calls : calls[c].http = 2 /\ calls[c].result # "threw"

\* C14: the manager's isConnected() returns true only while the session of
\* the current method is live (its handshake succeeded and it has neither been
\* disconnected nor lost its transport), and false when no method is current.
C14_ConnectedOnlyWithLiveSession ==
    /\ currentApi = "null" => ~mgrIsConnected(Cur)
    /\ mgrIsConnected(Cur) =>
           \/ currentApi = "ws" /\ LiveWsSession
           \/ currentApi = "http" /\ LiveHttpSession

\* The program's state: every variable but the history.
state == <<ws, connected, callbacks, tagCounter, sock, cmds, currentApi, config, calls,
           storage>>

\* C15: disconnect() is idempotent.  A MikroTikAPIManager.disconnect() that
\* follows another leaves the state as it is, and after any disconnect() no
\* method is current; RouterOSAPI.disconnect() applied to any state, a
\* never-connected one included, gives a state with no socket (the socket it
\* held is closing or closed), connected false and no pending command, and
\* applied again it changes nothing.
C15_DisconnectIdempotent ==
    [][/\ (last.ev = "mgrDisconnect" /\ last'.ev = "mgrDisconnect") => UNCHANGED state
       /\ last'.ev = "mgrDisconnect" => currentApi' = "null"
       /\ LET D == disconnect(Cur)
          IN  /\ disconnect(D) = D
              /\ D.ws = 0
              /\ ~D.connected
              /\ D.callbacks = {}
              /\ ws # 0 => D.sock[ws].st \in {"abort", "closing", "closed"}
       /\ LET M == mgrDisconnect(Cur)
          IN  mgrDisconnect(M) = M]_vars

\* C15 witness: disconnect() was called twice in a row on a manager that had
\* selected a method and whose RouterOSAPI holds an open socket.
C15_Witness ==
    /\ last.ev = "mgrDisconnect"
    /\ last.res = "again"
    /\ currentApi = "null"
    /\ \E c \in Calls : calls[c].http = 2
    /\ ws # 0
    /\ sock[ws].st = "open"

\* Call c ends in this step without success: it returns success false or
\* throws.
Fails(c) ==
    /\ c <= Len(calls')
    /\ calls[c].result = "none"
    /\ calls'[c].result \notin {"none", "ok_ws", "ok_http"}

\* C17: when a connect call fails, the manager's config (what saveConfig
\* would persist) is what it was before the call.
C17_FailedConnectKeepsConfig ==
    [][\A c \in Calls : Fails(c) => config' = calls[c].before]_vars

\* C18: the promise of a connect call, once settled, keeps its outcome, and
\* every connect call is settled eventually, whatever its socket does.
C18_SettlesOnce ==
    /\ [][\A s \in Sockets : sock[s].connP # "pending" => sock'[s].connP = sock[s].connP]_vars
    /\ \A s \in 1..MaxSockets :
           [](Len(sock) >= s => <>(Len(sock) >= s /\ sock[s].connP # "pending"))

\* C18 witness: a connect call whose socket never opened, failed or closed
\* has been settled, by its timer.
C18_Witness ==
    \E s \in Sockets :
        /\ sock[s].st = "connecting"
        /\ sock[s].connP = "rej_timeout"
        /\ ~sock[s].timer

\* The close event of the instance's socket has been handled and connect has
\* not been called since.
SessionClosed == ws # 0 /\ sock[ws].st = "closed"

\* The most commands an instance submits: the typed operations and one login
\* for each socket.
MaxCmds == MaxOps + MaxSockets

\* C19: once the close event of the session's socket has been handled,
\* isConnected() is false; a typed operation invoked from then on is refused,
\* writes nothing to any socket and registers no pending command; and a command
\* that is pending when the socket is closed fails eventually.
C19_ClosedSessionRefuses ==
    /\ [](SessionClosed => ~isConnected(Cur))
    /\ [][(SessionClosed /\ last'.ev = "op") =>
              /\ last'.res = RefusedResult(last'.op)
              /\ last'.i = 0
              /\ UNCHANGED <<sock, cmds, callbacks, tagCounter>>]_vars
    /\ \A i \in 1..MaxCmds :
           []((SessionClosed /\ Len(cmds) >= i /\ cmds[i].out = "pending")
                => <>(Len(cmds) >= i /\ cmds[i].out \in {"rej_failed", "rej_timeout"}))

\* C19 witness: the socket had opened and has closed, and a typed operation
\* invoked after that was refused.
C19_Witness ==
    /\ SessionClosed
    /\ sock[ws].opened
    /\ last.ev = "op"
    /\ last.res = "rej_notconn"
    /\ ~isConnected(Cur)

\* What config can hold: null or a configuration connect has stored.
Configs == {<<>>} \cup {<<c>> : c \in Cfgs}

\* The connection state: everything but config and localStorage.
connection == <<ws, connected, callbacks, tagCounter, sock, cmds, currentApi, calls>>

DecimalDigits == {c \in Chars : digitValue(c) < 10}

\* The number a run of digits denotes in a base, its last digit counting
\* units.
RECURSIVE valueIn(_, _)
valueIn(q, base) ==
    IF q = <<>>
    THEN 0
    ELSE valueIn(SubSeq(q, 1, Len(q) - 1), base) * base + digitValue(q[Len(q)])

\* The string with its minus sign, if it has one, taken off.
Unsigned(s) == IF s # <<>> /\ s[1] = "-" THEN Tail(s) ELSE s

Sign(s) == IF s # <<>> /\ s[1] = "-" THEN 0 - 1 ELSE 1

\* The string is a decimal integer: digits only, after an optional sign.
IsDecimal(s) ==
    /\ Unsigned(s) # <<>>
    /\ \A k \in 1..Len(Unsigned(s)) : Unsigned(s)[k] \in DecimalDigits

\* The string is a hexadecimal integer: 0x and then hexadecimal digits, after
\* an optional sign.
IsHexadecimal(s) ==
    LET q == Unsigned(s)
    IN  /\ Len(q) >= 3
        /\ q[1] = "0"
        /\ q[2] = "x"
        /\ \A k \in 3..Len(q) : digitValue(q[k]) < 16

IntegerValue(s) ==
    IF IsHexadecimal(s)
    THEN Sign(s) * valueIn(SubSeq(Unsigned(s), 3, Len(Unsigned(s))), 16)
    ELSE Sign(s) * valueIn(Unsigned(s), 10)

\* What a numeric counter counts for: its value when it is a decimal integer,
\* 0 when it is missing or not numeric.
Counted(v) == IF v # <<>> /\ IsDecimal(v[1]) THEN IntegerValue(v[1]) ELSE 0

\* The lengths of the initial parts of a string that are integers.
IntegerPrefixes(s) ==
    {n \in 1..Len(s) : IsDecimal(SubSeq(s, 1, n)) \/ IsHexadecimal(SubSeq(s, 1, n))}

\* What a counter counts for in the code: the integer its text begins with,
\* 0 when it is missing or begins with none.
LeadingInteger(v) ==
    IF v = <<>> \/ IntegerPrefixes(v[1]) = {}
    THEN 0
    ELSE LET n == CHOOSE x \in IntegerPrefixes(v[1]) :
                      \A y \in IntegerPrefixes(v[1]) : y <= x
         IN  IntegerValue(SubSeq(v[1], 1, n))

After == [Cur EXCEPT !.currentApi = currentApi', !.connected = connected',
                     !.ws = ws', !.sock = sock', !.cmds = cmds',
                     !.callbacks = callbacks', !.tagCounter = tagCounter',
                     !.config = config', !.calls = calls', !.storage = storage']

\* No method is selected in state S: getCurrentMethod() is null, isConnected()
\* is false and every typed operation fails with 'No active API connection',
\* contacting no router.
NoSession(S) ==
    /\ getCurrentMethod(S) = "null"
    /\ ~mgrIsConnected(S)
    /\ \A op \in Ops : mgrOp(S, op).ret = "rej_noapi"

\* C25: when a connect call ends without success, no method is left selected.
C25_NoStaleSession ==
    [][\A c \in Calls : Fails(c) => NoSession(After)]_vars

\* Socket s was superseded: connect was called again after the call that
\* created it.
Superseded(s) == s \in 1..(Len(sock) - 1)

\* The step is an event of a superseded socket.  A message event does not
\* record its socket and handleMessage does not depend on it: the step is one
\* a superseded socket can deliver when such a socket is open.
SupersededEvent ==
    \/ last'.ev \in {"open", "close", "fail"} /\ Superseded(last'.s)
    \/ /\ last'.ev = "message"
       /\ \E s \in 1..Len(sock) : Superseded(s) /\ sock[s].st \in {"open", "closing"}

\* The sockets newer than the one of the step's event.
Newer == IF last'.ev = "message" THEN {Len(sock)} ELSE (last'.s + 1)..Len(sock)

\* C26: an event of a superseded socket changes neither the connected flag, nor
\* the pending set, nor the outcome of a newer connect call, nor the outcome of
\* a command.
C26_SupersededEventsIgnored ==
    [][SupersededEvent =>
          /\ connected' = connected
          /\ callbacks' = callbacks
          /\ \A n \in Newer : sock'[n].connP = sock[n].connP
          /\ Len(cmds') = Len(cmds)
          /\ \A i \in 1..Len(cmds) : cmds'[i].out = cmds[i].out]_vars

\* The earlier socket has just failed, rejecting its own connect call, while
\* the newer connect call stays pending.
C26_Witness ==
    /\ Len(sock) = 2
    /\ last.ev = "fail" /\ last.s = 1
    /\ sock[1].connP = "rej_failed"
    /\ ws = 2 /\ sock[2].connP = "pending"

\* The connect call of socket s was rejected with 'Connection timeout' or
\* 'WebSocket connection failed'.
Rejected(s) == sock[s].connP \in {"rej_timeout", "rej_failed"}

\* C27: the socket of a rejected connect call never makes the instance
\* connected, and the manager never has HTTP selected over an authenticated,
\* open WebSocket session.
C27_NoGhostSession ==
    /\ \A s \in Sockets : Rejected(s) /\ sock[s].st \in {"open", "closing"} => ~connected
    /\ currentApi = "http" => ~(connected /\ ws # 0 /\ sock[ws].st = "open")

\* The socket opened after its connect call had timed out and the manager had
\* selected HTTP.
C27_Witness ==
    /\ currentApi = "http"
    /\ \E c \in Calls : calls[c].result = "ok_http"
    /\ ws # 0 /\ sock[ws].connP = "rej_timeout"
    /\ sock[ws].st = "open" /\ sock[ws].opened
    /\ last.ev = "open"

\* C28: when a connect call returns success, the saveConfig() that follows
\* persists the configuration that call was made with.
C28_SavedConfigOfSuccessfulCall ==
    [][\A c \in Calls :
          ReturnsSuccess(c) =>
              saveConfig(After).storage = JSONstringify(calls[c].cfg)]_vars

\* C29: the manager's disconnect() leaves no session, closes the WebSocket
\* session when that was the active method and leaves the configuration, in
\* memory and stored, as it was; and no session exists after the step that
\* follows it unless that step is a connect call returning success.
C29_DisconnectLeavesNoSession ==
    [][/\ last'.ev = "mgrDisconnect" =>
              /\ NoSession(After)
              /\ currentApi = "ws" /\ ws # 0 => sock'[ws].st \notin {"connecting", "open"}
              /\ config' = config
              /\ storage' = storage
       /\ last.ev = "mgrDisconnect" /\ ~(\E c \in Calls : ReturnsSuccess(c)) =>
              NoSession(After)]_vars

Requests == 1..Len(requests)

\* C30: an entry of the registry is set only by a connect request that
\* succeeds in that step, with its connection opened and under its own id; a
\* connect request that fails leaves the registry as it is; a data endpoint
\* asked for an id without entry answers 400 and writes to no connection.
C30_RegistryOnlyAfterProbe ==
    [][/\ \A k \in Keys :
              connections'[k] # connections[k] =>
                  LET r == connections'[k]
                  IN  /\ r \in Requests
                      /\ requests[r].key = k
                      /\ requests[r].res = "none" /\ requests'[r].res = "ok"
                      /\ requests'[r].conn = "open"
       /\ \A r \in Requests :
              requests[r].res = "none" /\ requests'[r].res = "fail" =>
                  connections' = connections
       /\ last'.ev = "data" /\ connections[last'.key] = 0 =>
              last'.res = "400" /\ last'.i = 0]_vars

\* A data endpoint was answered 400 for the id of a connect request that
\* failed after its connection was created, while the entry of an earlier
\* request is still in the registry.
C30_Witness ==
    /\ last.ev = "data" /\ last.res = "400"
    /\ \E r \in Requests :
          /\ requests[r].key = last.key
          /\ requests[r].res = "fail" /\ requests[r].conn # "none"
    /\ \E r \in Requests : requests[r].res = "ok" /\ connections[requests[r].key] = r

\* The socket of request r's connection is up: "open" (connected) or "idle"
\* (connected false after a timeout, the socket not destroyed).
SocketUp(r) == requests[r].conn \in {"open", "idle"}

\* C31: every entry of the registry refers to a connection that is still
\* connected, at most one socket is up per connection id, and every socket
\* that is up is the one its id is registered with (so that the SIGINT
\* handler, which closes the registry's entries, closes it).
C31_EntriesAreLive ==
    /\ \A k \in Keys :
          connections[k] # 0 => requests[connections[k]].conn = "open"
    /\ \A q, r \in Requests :
          SocketUp(q) /\ SocketUp(r) /\ requests[q].key = requests[r].key => q = r
    /\ \A r \in Requests :
          SocketUp(r) => connections[requests[r].key] = r

\* What a typed operation of the backend-proxy manager gives when it fails
\* with 'Not connected. Please connect first.' and sends no request.
NotConnectedResult(op) == IF op = "disconnectActiveUser" THEN "false" ELSE "rej_notconnected"

\* C32: a typed operation of the backend-proxy manager sends a request
\* exactly when isConnected() is true and otherwise fails with 'Not
\* connected. Please connect first.'; a connect call that fails leaves
\* isConnected() false.
C32_RequestsOnlyWhileConnected ==
    [][/\ last'.ev = "proxyOp" =>
              IF proxyIsConnected(proxy)
              THEN last'.res = "fetch"
              ELSE last'.res = NotConnectedResult(last'.op)
       /\ \A c \in 1..Len(proxy.calls) :
              proxy.calls[c].result = "none" /\ proxy'.calls[c].result = "fail" =>
                  ~proxyIsConnected(proxy')]_vars
====
